---- MODULE Spec2Model ----
(***************************************************************************)
(* Model of package bytecast (anxp/bytecast): conversion of integers to    *)
(* and from fixed-width big-endian two's-complement byte buffers.          *)
(*                                                                         *)
(* A 64-bit container (int64 / uint64) is its eight bytes; all container   *)
(* arithmetic is done modulo 2^64 on them, so every shift and addition     *)
(* wraps exactly as Go's does.  A *big.Int is a sign and a magnitude of    *)
(* base-256 limbs.  A byte slice is a sequence of 0..255; Go index i is    *)
(* element i + 1.                                                          *)
(***************************************************************************)
EXTENDS Integers, Sequences, FiniteSets, TLC

\* ------------------------------------------------------------------ bounds
\* Largest output width / input buffer length (bytes) that is enumerated.
MaxWidth == 9
\* Largest bit-width above 64 handed to BigIntXXXFromBytes is 64 + MaxOver.
MaxOver == 12

\* Width of one EVM word in bytes, the width every test vector uses.
EVMWord == 32

\* ------------------------------------------------- 64-bit container words
\* A container is its eight bytes, least significant first: element k + 1
\* holds bits 8k .. 8k + 7.
WordBits == 64

WordBytes == WordBits \div 8

Pow2(k) == 2 ^ k

\* A function written out as a stored sequence.
Stored(f) == f @@ <<>>

\* Element i of a sequence of bytes, 0 outside it.
Limb(a, i) == IF i >= 1 /\ i <= Len(a) THEN a[i] ELSE 0

\* Bit k (0..7) of a byte.
BitOf(b, k) == (b \div Pow2(k)) % 2

AndByte(a, b) ==
    BitOf(a, 0) * BitOf(b, 0) + 2 * BitOf(a, 1) * BitOf(b, 1)
    + 4 * BitOf(a, 2) * BitOf(b, 2) + 8 * BitOf(a, 3) * BitOf(b, 3)
    + 16 * BitOf(a, 4) * BitOf(b, 4) + 32 * BitOf(a, 5) * BitOf(b, 5)
    + 64 * BitOf(a, 6) * BitOf(b, 6) + 128 * BitOf(a, 7) * BitOf(b, 7)

OrByte(a, b) == a + b - AndByte(a, b)

\* Bit i (0..63) of a container.
BitAt(x, i) == BitOf(x[(i \div 8) + 1], i % 8)

Zero64 == <<0, 0, 0, 0, 0, 0, 0, 0>>

One64 == <<1, 0, 0, 0, 0, 0, 0, 0>>

MinusOne64 == <<255, 255, 255, 255, 255, 255, 255, 255>>

\* x << n on a 64-bit operand, n >= 0: a count of 64 or more gives 0.
Shl(x, n) ==
    LET q == n \div 8
        r == n % 8
    IN  Stored([i \in 1..WordBytes |->
                  ((Limb(x, i - q) * Pow2(r)) % 256)
                  + ((Limb(x, i - q - 1) * Pow2(r)) \div 256)])

\* x >> n on a uint64 operand, n >= 0 (logical shift).
Shr(x, n) ==
    LET q == n \div 8
        r == n % 8
    IN  Stored([i \in 1..WordBytes |->
                  (Limb(x, i + q) \div Pow2(r))
                  + ((Limb(x, i + q + 1) * Pow2(8 - r)) % 256)])

Or64(x, y) == Stored([i \in 1..WordBytes |-> OrByte(x[i], y[i])])

And64(x, y) == Stored([i \in 1..WordBytes |-> AndByte(x[i], y[i])])

Not64(x) == Stored([i \in 1..WordBytes |-> 255 - x[i]])

\* The carries of x + y: element i is the carry into byte i.
RECURSIVE Carries(_, _, _)
Carries(x, y, cs) ==
    IF Len(cs) = WordBytes THEN cs
    ELSE LET i == Len(cs) IN
         Carries(x, y, Append(cs, (x[i] + y[i] + cs[i]) \div 256))

\* x + y modulo 2^64.
Add64(x, y) ==
    LET c == Carries(x, y, <<0>>)
    IN  Stored([i \in 1..WordBytes |-> (x[i] + y[i] + c[i]) % 256])

\* x - y modulo 2^64.
Sub64(x, y) == Add64(x, Add64(Not64(y), One64))

\* x < y for uint64 operands.
ULt(x, y) ==
    \E i \in 1..WordBytes : /\ x[i] < y[i]
                            /\ \A j \in (i + 1)..WordBytes : x[j] = y[j]

\* x < y for int64 operands.
SLt(x, y) ==
    IF BitAt(x, WordBits - 1) # BitAt(y, WordBits - 1)
    THEN BitAt(x, WordBits - 1) = 1
    ELSE ULt(x, y)

\* byte(x): the low eight bits.
ByteOf(x) == x[1]

\* uint64(b) for a byte b.
FromByte(b) == <<b, 0, 0, 0, 0, 0, 0, 0>>

\* The container holding the literal n, 0 <= n < 2^30.
NatToWord(n) ==
    <<n % 256, (n \div 256) % 256, (n \div 65536) % 256, n \div 16777216, 0, 0, 0, 0>>

\* The container holding the literal n, |n| < 2^30.
IntToWord(n) == IF n >= 0 THEN NatToWord(n) ELSE Sub64(Zero64, NatToWord(-n))

\* int(math.Ceil(float64(bits) / 8.0)) for bits >= 1.
NeededBytes(bits) == (bits + 7) \div 8

\* ------------------------------------------------------------ result values
ErrNil == "nil"

UnsupportedBitWidth == "UnsupportedBitWidth"

RangeError == "RangeError"

LengthError == "LengthError"

Overflow == "Overflow"

WidthTooSmall == "WidthTooSmall"

StringTooLong == "StringTooLong"

PanicIndex == "panic: index out of range"

PanicMakeSlice == "panic: makeslice: len out of range"

PanicSlice == "panic: slice bounds out of range"

\* What an encoder hands back: the slice (isNil for a nil slice) and the error.
EncRet(bytes, isNil, e) == [out |-> bytes, isNil |-> isNil, err |-> e]

\* make([]byte, n), n >= 0.
MakeBytes(n) == [i \in 1..n |-> 0]

\* The loop  for i := ...; i < width; i++ { out[i] = byte(u >> uint(offset)); offset -= 8 }.
\* oob is set when an index outside out is written (Go panics there).
RECURSIVE WriteBigEndian(_, _, _, _)
WriteBigEndian(out, u, i, offset) ==
    IF i >= Len(out) THEN [out |-> out, oob |-> FALSE]
    ELSE IF i < 0 THEN [out |-> out, oob |-> TRUE]
    ELSE WriteBigEndian([out EXCEPT ![i + 1] = ByteOf(Shr(u, offset))],
                        u, i + 1, offset - 8)

\* SignExtend stopping one byte early.
SignExtendShort(out, n) == [i \in 1..Len(out) |-> IF i <= n - 1 THEN 255 ELSE out[i]]

\* The loop  for i := 0; i < n; i++ { out[i] = 0xff }.
SignExtend(out, n) == [i \in 1..Len(out) |-> IF i <= n THEN 255 ELSE out[i]]

\* MaxPossibleV without the decrement.
MaxPossibleVNoDecrement(xx) == Shl(One64, xx - 1)

\* int64(1)<<(xx-1) - 1
MaxPossibleV(xx) == Sub64(Shl(One64, xx - 1), One64)

\* int64(-1) << (xx - 1)
MinPossibleV(xx) == Shl(MinusOne64, xx - 1)

\* The unsigned xx-bit pattern u of an int64 value.
TwosComplement(value, xx) ==
    IF SLt(value, Zero64) THEN Add64(value, Shl(One64, xx)) ELSE value

IntXXToBytesAndExpandWidth(value, xx, width) ==
    IF xx <= 0 \/ xx > WordBits THEN EncRet(<<>>, TRUE, UnsupportedBitWidth)
    ELSE
    IF SLt(value, MinPossibleV(xx)) \/ SLt(MaxPossibleV(xx), value)
    THEN EncRet(<<>>, TRUE, RangeError)
    ELSE
    LET u == TwosComplement(value, xx)
        neededBytesNum == NeededBytes(xx)
    IN
    IF width < 0 THEN EncRet(<<>>, TRUE, PanicMakeSlice)
    ELSE
    LET w == WriteBigEndian(MakeBytes(width), u, width - neededBytesNum,
                            (neededBytesNum - 1) * 8)
    IN
    IF w.oob THEN EncRet(<<>>, TRUE, PanicIndex)
    ELSE IF SLt(value, Zero64)
         THEN EncRet(SignExtend(w.out, width - neededBytesNum), FALSE, ErrNil)
         ELSE EncRet(w.out, FALSE, ErrNil)

\* UintMaxPossibleV without the decrement.
UintMaxPossibleVNoDecrement(xx) == Shl(One64, xx)

\* uint64(1)<<xx - 1
UintMaxPossibleV(xx) == Sub64(Shl(One64, xx), One64)

UintXXToBytesAndExpandWidth(value, xx, width) ==
    IF xx <= 0 \/ xx > WordBits THEN EncRet(<<>>, TRUE, UnsupportedBitWidth)
    ELSE
    LET maxPossibleV == UintMaxPossibleV(xx) IN
    IF ULt(maxPossibleV, value) THEN EncRet(<<>>, TRUE, RangeError)
    ELSE
    LET u == And64(value, maxPossibleV)
        neededBytesNum == NeededBytes(xx)
    IN
    IF width < 0 THEN EncRet(<<>>, TRUE, PanicMakeSlice)
    ELSE
    LET w == WriteBigEndian(MakeBytes(width), u, width - neededBytesNum,
                            (neededBytesNum - 1) * 8)
    IN
    IF w.oob THEN EncRet(<<>>, TRUE, PanicIndex)
    ELSE EncRet(w.out, FALSE, ErrNil)

\* What a fixed-width decoder hands back: the container and the error.
DecRet(v, e) == [val |-> v, err |-> e]

\* The read loop started at index 0 instead of start: every byte of the
\* buffer is accumulated, the last one at offset 0.
RECURSIVE ReadWhole(_, _, _)
ReadWhole(bytes, u, j) ==
    IF j >= Len(bytes) THEN [u |-> u, oob |-> FALSE]
    ELSE ReadWhole(bytes,
                   Or64(u, Shl(FromByte(bytes[j + 1]), 8 * (Len(bytes) - 1 - j))),
                   j + 1)

ReadBigEndianWhole(bytes, u, i, offset) == ReadWhole(bytes, u, 0)

\* The loop  for i := start; i < len(bytes); i++ { u |= uint64(bytes[i]) << offset; offset -= 8 }.
\* oob is set when an index outside bytes is read (Go panics there).
RECURSIVE ReadBigEndian(_, _, _, _)
ReadBigEndian(bytes, u, i, offset) ==
    IF i >= Len(bytes) THEN [u |-> u, oob |-> FALSE]
    ELSE IF i < 0 THEN [u |-> u, oob |-> TRUE]
    ELSE ReadBigEndian(bytes, Or64(u, Shl(FromByte(bytes[i + 1]), offset)),
                       i + 1, offset - 8)

\* TooShort accepting a buffer one byte short.
TooShortOffByOne(bytes, neededBytesNum) == Len(bytes) < neededBytesNum - 1

\* len(bytes) < neededBytesNum
TooShort(bytes, neededBytesNum) == Len(bytes) < neededBytesNum

\* SignBitPosition one position too high.
SignBitPositionOffByOne(xx) == xx

\* signBitPosition := xx - 1
SignBitPosition(xx) == xx - 1

\* u with every bit from position xx on set:  u | ^((1 << xx) - 1)
SignExtended(u, xx) == Or64(u, Not64(Sub64(Shl(One64, xx), One64)))

IntXXFromBytes(bytes, xx) ==
    IF xx <= 0 \/ xx > WordBits THEN DecRet(Zero64, UnsupportedBitWidth)
    ELSE
    LET neededBytesNum == NeededBytes(xx) IN
    IF TooShort(bytes, neededBytesNum) THEN DecRet(Zero64, LengthError)
    ELSE
    LET r == ReadBigEndian(bytes, Zero64, Len(bytes) - neededBytesNum,
                           (neededBytesNum - 1) * 8)
        signBitPosition == SignBitPosition(xx)
    IN
    IF r.oob THEN DecRet(Zero64, PanicIndex)
    ELSE IF xx = WordBits \/ And64(r.u, Shl(One64, signBitPosition)) = Zero64
         THEN DecRet(r.u, ErrNil)
         ELSE DecRet(SignExtended(r.u, xx), ErrNil)

UintXXFromBytes(bytes, xx) ==
    IF xx <= 0 \/ xx > WordBits THEN DecRet(Zero64, UnsupportedBitWidth)
    ELSE
    LET neededBytesNum == NeededBytes(xx) IN
    IF TooShort(bytes, neededBytesNum) THEN DecRet(Zero64, LengthError)
    ELSE
    LET r == ReadBigEndian(bytes, Zero64, Len(bytes) - neededBytesNum,
                           (neededBytesNum - 1) * 8)
    IN
    IF r.oob THEN DecRet(Zero64, PanicIndex) ELSE DecRet(r.u, ErrNil)

\* ------------------------------------------------------------ byte padding
\* bytes.Repeat([]byte{b}, n)
Repeat(b, n) == [i \in 1..n |-> b]

\* LeftPadBytes with the fill appended after the input.
LeftPadBytesRight(input, size, padByte) ==
    IF size <= Len(input) THEN input
    ELSE input \o Repeat(padByte, size - Len(input))

LeftPadBytes(input, size, padByte) ==
    IF size <= Len(input) THEN input
    ELSE Repeat(padByte, size - Len(input)) \o input

LeftPadBytes00(input, size) == LeftPadBytes(input, size, 0)

LeftPadBytesFF(input, size) == LeftPadBytes(input, size, 255)

\* Whether the slice LeftPadBytes returns is backed by the array of its
\* argument:  return input  hands the argument back, while
\* append(pad, input...) extends the array bytes.Repeat has just allocated.
LeftPadBytesShares(input, size) == size <= Len(input)

\* ------------------------------------------------------------ int32 wrapper
\* An int32 is four limbs, least significant first.
Int32Bytes == 4

\* binary.BigEndian.PutUint32(b, uint32(intValue))
Int32To4Bytes(intValue) == <<intValue[4], intValue[3], intValue[2], intValue[1]>>

\* intValue >= 0
NonNegative32(intValue) == intValue[Int32Bytes] < 128

\* Int32ToBytesAndExpandWidth padding with 0x00 whatever the sign.
Int32ToBytesAndExpandWidthZeroPad(intValue, width) ==
    IF width < Int32Bytes THEN EncRet(<<>>, FALSE, WidthTooSmall)
    ELSE EncRet(LeftPadBytes00(Int32To4Bytes(intValue), width), FALSE, ErrNil)

Int32ToBytesAndExpandWidth(intValue, width) ==
    IF width < Int32Bytes THEN EncRet(<<>>, FALSE, WidthTooSmall)
    ELSE
    LET byteValue == Int32To4Bytes(intValue) IN
    IF NonNegative32(intValue)
    THEN EncRet(LeftPadBytes00(byteValue, width), FALSE, ErrNil)
    ELSE EncRet(LeftPadBytesFF(byteValue, width), FALSE, ErrNil)

\* ----------------------------------------------------------- string packing
\* A string is the sequence of its bytes.
MaxStringLen == 255

ArrayLen == 256

StringTo256Bytes(stringValue) ==
    LET l == Len(stringValue) IN
    IF l > MaxStringLen
    THEN EncRet(Repeat(0, ArrayLen), FALSE, StringTooLong)
    ELSE EncRet(<<l % 256>> \o LeftPadBytes00(stringValue, MaxStringLen), FALSE, ErrNil)

\* StringFrom256Bytes taking the bytes that follow the count byte.
StringFrom256BytesFront(byteVal) ==
    IF byteVal[1] = 0 THEN <<>> ELSE SubSeq(byteVal, 2, byteVal[1] + 1)

StringFrom256Bytes(byteVal) ==
    LET significantBytesCount == byteVal[1] IN
    IF significantBytesCount = 0 THEN <<>>
    ELSE SubSeq(byteVal, ArrayLen - significantBytesCount + 1, ArrayLen)

\* ------------------------------------------------------------------ big.Int
\* A magnitude is a sequence of limbs 0..255, least significant first, whose
\* last limb is not 0 (the empty sequence is 0).
Reverse(s) == [i \in 1..Len(s) |-> s[Len(s) + 1 - i]]

RECURSIVE NatNorm(_)
NatNorm(a) ==
    IF Len(a) = 0 THEN <<>>
    ELSE IF a[Len(a)] # 0 THEN a
    ELSE NatNorm(SubSeq(a, 1, Len(a) - 1))

\* -1, 0, +1 as a < b, a = b, a > b (both normalised).
NatCmp(a, b) ==
    IF Len(a) # Len(b) THEN (IF Len(a) < Len(b) THEN -1 ELSE 1)
    ELSE IF a = b THEN 0
    ELSE LET k == CHOOSE i \in 1..Len(a) :
                      /\ a[i] # b[i]
                      /\ \A j \in (i + 1)..Len(a) : a[j] = b[j]
         IN  IF a[k] < b[k] THEN -1 ELSE 1

NatAdd(a, b) ==
    LET n == IF Len(a) >= Len(b) THEN Len(a) ELSE Len(b)
        c[i \in 1..(n + 1)] ==
            IF i = 1 THEN 0
            ELSE (Limb(a, i - 1) + Limb(b, i - 1) + c[i - 1]) \div 256
    IN  NatNorm([i \in 1..(n + 1) |->
                    (Limb(a, i) + Limb(b, i) + c[i]) % 256])

\* a - b for a >= b.
NatSub(a, b) ==
    LET n == Len(a)
        bw[i \in 1..(n + 1)] ==
            IF i = 1 THEN 0
            ELSE IF Limb(a, i - 1) - Limb(b, i - 1) - bw[i - 1] < 0 THEN 1 ELSE 0
    IN  NatNorm([i \in 1..n |->
                    (Limb(a, i) - Limb(b, i) - bw[i] + 256) % 256])

\* a << n
NatShl(a, n) ==
    LET q == n \div 8
        r == n % 8
    IN  NatNorm([i \in 1..(Len(a) + q + 1) |->
                    IF i <= q THEN 0
                    ELSE ((Limb(a, i - q) * Pow2(r)) % 256)
                         + ((Limb(a, i - q - 1) * Pow2(r)) \div 256)])

\* Number of significant bits of one limb.
LimbBitLen(b) ==
    IF b = 0 THEN 0 ELSE CHOOSE k \in 1..8 : Pow2(k - 1) <= b /\ b < Pow2(k)

BigInt(neg, abs) == [isNil |-> FALSE, neg |-> neg /\ abs # <<>>, abs |-> abs]

\* A nil *big.Int.
NilBig == [isNil |-> TRUE, neg |-> FALSE, abs |-> <<>>]

\* big.NewInt(n) for 0 <= |n| < 256
NewInt(n) ==
    IF n = 0 THEN BigInt(FALSE, <<>>)
    ELSE IF n > 0 THEN BigInt(FALSE, <<n>>) ELSE BigInt(TRUE, <<-n>>)

BigSign(x) == IF x.abs = <<>> THEN 0 ELSE IF x.neg THEN -1 ELSE 1

BigBitLen(x) ==
    IF x.abs = <<>> THEN 0
    ELSE 8 * (Len(x.abs) - 1) + LimbBitLen(x.abs[Len(x.abs)])

\* x.Bytes(): the magnitude, most significant byte first, no leading zero.
BigBytes(x) == Reverse(x.abs)

\* new(big.Int).SetBytes(b)
BigSetBytes(b) == BigInt(FALSE, NatNorm(Reverse(b)))

\* x.Bit(i) for x >= 0, i >= 0
BigBit(x, i) == (Limb(x.abs, (i \div 8) + 1) \div Pow2(i % 8)) % 2

BigLsh(x, n) == BigInt(x.neg, NatShl(x.abs, n))

BigAdd(x, y) ==
    IF x.neg = y.neg THEN BigInt(x.neg, NatAdd(x.abs, y.abs))
    ELSE IF NatCmp(x.abs, y.abs) >= 0
         THEN BigInt(x.neg, NatSub(x.abs, y.abs))
         ELSE BigInt(~x.neg, NatSub(y.abs, x.abs))

BigSub(x, y) ==
    IF x.neg # y.neg THEN BigInt(x.neg, NatAdd(x.abs, y.abs))
    ELSE IF NatCmp(x.abs, y.abs) >= 0
         THEN BigInt(x.neg, NatSub(x.abs, y.abs))
         ELSE BigInt(~x.neg, NatSub(y.abs, x.abs))

\* BigIntToBytesAndExpandWidth without the test twos.Sign() < 0.
BigIntToBytesAndExpandWidthNoSignTest(bigIntArg, width) ==
    LET bigInt == IF bigIntArg.isNil THEN NewInt(0) ELSE bigIntArg
        bitLen == width * 8
    IN
    IF BigSign(bigInt) >= 0
    THEN IF BigBitLen(bigInt) > bitLen THEN EncRet(<<>>, TRUE, Overflow)
         ELSE EncRet(LeftPadBytes00(BigBytes(bigInt), width), FALSE, ErrNil)
    ELSE
    LET mod == BigLsh(NewInt(1), bitLen)
        twos == BigAdd(mod, bigInt)
    IN
    IF BigBitLen(twos) > bitLen
    THEN EncRet(<<>>, TRUE, Overflow)
    ELSE EncRet(BigBytes(twos), FALSE, ErrNil)

BigIntToBytesAndExpandWidth(bigIntArg, width) ==
    LET bigInt == IF bigIntArg.isNil THEN NewInt(0) ELSE bigIntArg
        bitLen == width * 8
    IN
    IF BigSign(bigInt) >= 0
    THEN IF BigBitLen(bigInt) > bitLen THEN EncRet(<<>>, TRUE, Overflow)
         ELSE EncRet(LeftPadBytes00(BigBytes(bigInt), width), FALSE, ErrNil)
    ELSE
    LET mod == BigLsh(NewInt(1), bitLen)
        twos == BigAdd(mod, bigInt)
    IN
    IF BigSign(twos) < 0 \/ BigBitLen(twos) > bitLen
    THEN EncRet(<<>>, TRUE, Overflow)
    ELSE EncRet(BigBytes(twos), FALSE, ErrNil)

\* BigIntFromBytes reading every buffer as unsigned.
BigIntFromBytesUnsigned(byteValue) == BigSetBytes(byteValue)

BigIntFromBytes(byteValue) ==
    LET x == BigSetBytes(byteValue) IN
    IF Len(byteValue) = 0 \/ byteValue[1] < 128 THEN x
    ELSE LET bitLen == Len(byteValue) * 8
             mod == BigLsh(NewInt(1), bitLen)
         IN  BigSub(x, mod)

\* What BigIntXXXFromBytes hands back: the *big.Int (NilBig for nil) and the error.
BigRet(v, e) == [big |-> v, err |-> e]

\* TooSmallBitSize with the limit at 32 bits.
TooSmallBitSize32(xxx) == xxx <= 32

\* TooSmallBitSize letting 64 itself through.
TooSmallBitSizeStrict(xxx) == xxx < WordBits

\* xxx <= 64
TooSmallBitSize(xxx) == xxx <= WordBits

BigIntXXXFromBytes(bytes, xxx) ==
    IF TooSmallBitSize(xxx) THEN BigRet(NilBig, UnsupportedBitWidth)
    ELSE
    LET neededBytesNum == NeededBytes(xxx) IN
    IF TooShort(bytes, neededBytesNum) THEN BigRet(NilBig, LengthError)
    ELSE
    LET start == Len(bytes) - neededBytesNum
        uBytes == SubSeq(bytes, start + 1, Len(bytes))
        resultUnsigned == BigSetBytes(uBytes)
    IN
    IF start < 0 THEN BigRet(NilBig, PanicSlice)
    ELSE IF BigBit(resultUnsigned, xxx - 1) = 0 THEN BigRet(resultUnsigned, ErrNil)
    ELSE LET mod == BigLsh(NewInt(1), xxx)
         IN  BigRet(BigSub(resultUnsigned, mod), ErrNil)

\* ------------------------------------------------------- enumerated inputs
MaxLen == MaxWidth + 2

\* Bit-widths handed to the fixed-width codec: every valid one and the
\* invalid neighbours.
XXs == (-1)..(WordBits + 1)

\* Output widths in bytes.
Widths == (0..MaxWidth) \cup {EVMWord}

\* Bit-widths handed to the strict-position decoder.
XXXs == {-8, 0, 1, 40, 63, 128, 255, 256} \cup (WordBits..(WordBits + MaxOver))

\* An irregular bit pattern, every byte of it different.
Pattern64 == <<165, 60, 219, 18, 126, 201, 83, 172>>

\* The container whose bits below position k are those of p and whose bits
\* from k on are all b.
FillFrom(p, k, b) ==
    Stored([i \in 1..WordBytes |->
              IF 8 * i <= k THEN p[i]
              ELSE IF 8 * (i - 1) >= k THEN 255 * b
              ELSE (p[i] % Pow2(k % 8)) + b * (256 - Pow2(k % 8))])

\* The values tried with bit-width xx: the ends of the signed and unsigned
\* ranges, their outer neighbours, patterned values inside the range, and
\* literals of the test tables.
Values(xx) ==
    LET k == IF xx < 1 THEN 1 ELSE IF xx > WordBits THEN WordBits ELSE xx
        sMax == FillFrom(MinusOne64, k - 1, 0)
        sMin == FillFrom(Zero64, k - 1, 1)
        uMax == FillFrom(MinusOne64, k, 0)
    IN  { Zero64, One64, MinusOne64, Pattern64,
          sMax, sMin, uMax,
          Add64(sMax, One64), Sub64(sMin, One64), Add64(uMax, One64),
          FillFrom(Pattern64, k - 1, 0), FillFrom(Pattern64, k - 1, 1),
          FillFrom(Pattern64, k, 0),
          IntToWord(-193630), IntToWord(8388608) }

\* Input buffers: a few byte patterns at every length.
BytePattern(k, len) ==
    [i \in 1..len |->
        CASE k = 1 -> 0
          [] k = 2 -> 255
          [] k = 3 -> IF i = 1 THEN 128 ELSE 0
          [] k = 4 -> IF i = 1 THEN 127 ELSE 255
          [] k = 5 -> (37 * i + 3) % 256
          [] k = 6 -> 240
          [] k = 7 -> IF i = 1 THEN 1 ELSE 254
          [] OTHER -> IF i = len THEN 1 ELSE 0]

Buffers == { BytePattern(k, len) : k \in 1..8, len \in (0..MaxLen) \cup {EVMWord} }

\* Magnitudes 2^n, 2^n - 1 and 2^n + 1 written limb by limb (n >= 0).
PowLimbs(n) == [i \in 1..((n \div 8) + 1) |-> IF i = (n \div 8) + 1 THEN Pow2(n % 8) ELSE 0]

PowLimbsMinus1(n) ==
    IF n % 8 = 0 THEN [i \in 1..(n \div 8) |-> 255]
    ELSE [i \in 1..((n \div 8) + 1) |-> IF i = (n \div 8) + 1 THEN Pow2(n % 8) - 1 ELSE 255]

PowLimbsPlus1(n) ==
    IF n = 0 THEN <<2>>
    ELSE [i \in 1..((n \div 8) + 1) |->
            (IF i = (n \div 8) + 1 THEN Pow2(n % 8) ELSE 0) + (IF i = 1 THEN 1 ELSE 0)]

\* The big integers tried with width w: nil, small ones, and the ends of the
\* signed and unsigned w-byte ranges with their neighbours, of both signs.
BigValues(w) ==
    LET mags == { <<>>, <<1>>, <<2>>, <<255>>, <<0, 1>>, <<57, 48>> }
                \cup ( IF w < 1 THEN {}
                       ELSE { PowLimbs(8 * w - 1), PowLimbsMinus1(8 * w - 1),
                              PowLimbsPlus1(8 * w - 1), PowLimbs(8 * w),
                              PowLimbsMinus1(8 * w), PowLimbsPlus1(8 * w),
                              PowLimbsMinus1(8 * w - 8), PowLimbs(8 * w - 8) } )
    IN  {NilBig} \cup { BigInt(n, m) : n \in BOOLEAN, m \in mags }

\* Arguments of the padding functions.
Sizes == ((-2)..(MaxLen + 1)) \cup {EVMWord}

PadBytes == {0, 90, 255}

\* int32 arguments: 0, 1, 100, -1, -100, MaxInt32, MinInt32 and two patterns.
Int32s ==
    { <<0, 0, 0, 0>>, <<1, 0, 0, 0>>, <<100, 0, 0, 0>>,
      <<255, 255, 255, 255>>, <<156, 255, 255, 255>>,
      <<255, 255, 255, 127>>, <<0, 0, 0, 128>>,
      <<18, 219, 60, 165>>, <<126, 201, 83, 44>> }

\* Strings: the lengths around both ends of 0..255, with contents that
\* include 0x00 bytes.
StringLens == {0, 1, 2, 3, MaxStringLen - 1, MaxStringLen, MaxStringLen + 1, MaxStringLen + 2}

StringPattern(k, len) ==
    [i \in 1..len |->
        CASE k = 1 -> 97
          [] k = 2 -> 0
          [] k = 3 -> (37 * i + 3) % 256
          [] OTHER -> IF i % 2 = 1 THEN 0 ELSE 122]

Strings == { StringPattern(k, len) : k \in 1..4, len \in StringLens }

\* Arrays to unpack: the packed strings, and arrays whose bytes between the
\* count and the significant bytes are not zero.
ByteVals ==
    { StringTo256Bytes(s).out : s \in Strings }
        \cup { [i \in 1..ArrayLen |-> IF i = 1 THEN c ELSE (7 * i) % 256] :
                   c \in {0, 1, 5, MaxStringLen} }

\* -------------------------------------------------------------- the caller
\* The package keeps no state of its own.  The state is one call: the
\* function called (op), the arguments passed, and, once the call has
\* returned (pc = "done"), what came back.  inputBuf is the array behind the
\* slice the caller passed, outShares tells whether the returned slice is
\* backed by that same array, and pc = "written" is the caller having
\* stored a byte into the returned slice.
VARIABLES pc, op, value, xx, xxx, width, bytes, bigInt, input, size, padByte,
          intValue, stringValue, byteVal,
          out, outIsNil, err, val, big, str, inputBuf, outShares

vars == <<pc, op, value, xx, xxx, width, bytes, bigInt, input, size, padByte,
          intValue, stringValue, byteVal,
          out, outIsNil, err, val, big, str, inputBuf, outShares>>

args == <<op, value, xx, xxx, width, bytes, bigInt, input, size, padByte,
          intValue, stringValue, byteVal>>

heap == <<inputBuf, outShares>>

PadOps == {"LeftPadBytes", "LeftPadBytes00", "LeftPadBytesFF"}

\* The functions that return a slice.
SliceOps ==
    PadOps \cup {"IntXXToBytesAndExpandWidth", "UintXXToBytesAndExpandWidth",
                 "BigIntToBytesAndExpandWidth", "Int32ToBytesAndExpandWidth"}

\* The slice argument of the call.
SliceArg == IF op \in PadOps THEN input ELSE bytes

Zero32 == <<0, 0, 0, 0>>

\* The arguments a function does not take.
NoPadArgs == input = <<>> /\ size = 0 /\ padByte = 0

NoWrapperArgs == intValue = Zero32 /\ stringValue = <<>> /\ byteVal = <<>>

NoIntArgs == value = Zero64 /\ xx = 0 /\ xxx = 0 /\ bigInt = NilBig

Init ==
    /\ pc = "call"
    /\ out = <<>>
    /\ outIsNil = TRUE
    /\ err = ErrNil
    /\ val = Zero64
    /\ big = NilBig
    /\ str = <<>>
    /\ outShares = FALSE
    /\ \/ /\ op \in {"IntXXToBytesAndExpandWidth", "UintXXToBytesAndExpandWidth"}
          /\ xx \in XXs
          /\ value \in Values(xx)
          /\ width \in Widths
          /\ xxx = 0 /\ bytes = <<>> /\ bigInt = NilBig
          /\ NoPadArgs /\ NoWrapperArgs
       \/ /\ op \in {"IntXXFromBytes", "UintXXFromBytes"}
          /\ xx \in XXs
          /\ bytes \in Buffers
          /\ value = Zero64 /\ width = 0 /\ xxx = 0 /\ bigInt = NilBig
          /\ NoPadArgs /\ NoWrapperArgs
       \/ /\ op = "BigIntToBytesAndExpandWidth"
          /\ width \in Widths
          /\ bigInt \in BigValues(width)
          /\ value = Zero64 /\ xx = 0 /\ xxx = 0 /\ bytes = <<>>
          /\ NoPadArgs /\ NoWrapperArgs
       \/ /\ op = "BigIntFromBytes"
          /\ bytes \in Buffers
          /\ value = Zero64 /\ xx = 0 /\ xxx = 0 /\ width = 0 /\ bigInt = NilBig
          /\ NoPadArgs /\ NoWrapperArgs
       \/ /\ op = "BigIntXXXFromBytes"
          /\ xxx \in XXXs
          /\ bytes \in Buffers
          /\ value = Zero64 /\ xx = 0 /\ width = 0 /\ bigInt = NilBig
          /\ NoPadArgs /\ NoWrapperArgs
       \/ /\ op = "LeftPadBytes"
          /\ input \in Buffers
          /\ size \in Sizes
          /\ padByte \in PadBytes
          /\ NoIntArgs /\ width = 0 /\ bytes = <<>> /\ NoWrapperArgs
       \/ /\ op \in {"LeftPadBytes00", "LeftPadBytesFF"}
          /\ input \in Buffers
          /\ size \in Sizes
          /\ padByte = 0
          /\ NoIntArgs /\ width = 0 /\ bytes = <<>> /\ NoWrapperArgs
       \/ /\ op = "Int32ToBytesAndExpandWidth"
          /\ intValue \in Int32s
          /\ width \in Widths
          /\ stringValue = <<>> /\ byteVal = <<>>
          /\ NoIntArgs /\ bytes = <<>> /\ NoPadArgs
       \/ /\ op = "StringTo256Bytes"
          /\ stringValue \in Strings
          /\ intValue = Zero32 /\ byteVal = <<>>
          /\ NoIntArgs /\ width = 0 /\ bytes = <<>> /\ NoPadArgs
       \/ /\ op = "StringFrom256Bytes"
          /\ byteVal \in ByteVals
          /\ intValue = Zero32 /\ stringValue = <<>>
          /\ NoIntArgs /\ width = 0 /\ bytes = <<>> /\ NoPadArgs
    /\ inputBuf = SliceArg

IntXXToBytesAndExpandWidthCall ==
    /\ pc = "call"
    /\ op = "IntXXToBytesAndExpandWidth"
    /\ LET r == IntXXToBytesAndExpandWidth(value, xx, width) IN
       /\ out' = r.out
       /\ outIsNil' = r.isNil
       /\ err' = r.err
    /\ pc' = "done"
    /\ UNCHANGED <<args, val, big, str, heap>>

UintXXToBytesAndExpandWidthCall ==
    /\ pc = "call"
    /\ op = "UintXXToBytesAndExpandWidth"
    /\ LET r == UintXXToBytesAndExpandWidth(value, xx, width) IN
       /\ out' = r.out
       /\ outIsNil' = r.isNil
       /\ err' = r.err
    /\ pc' = "done"
    /\ UNCHANGED <<args, val, big, str, heap>>

IntXXFromBytesCall ==
    /\ pc = "call"
    /\ op = "IntXXFromBytes"
    /\ LET r == IntXXFromBytes(bytes, xx) IN
       /\ val' = r.val
       /\ err' = r.err
    /\ pc' = "done"
    /\ UNCHANGED <<args, out, outIsNil, big, str, heap>>

UintXXFromBytesCall ==
    /\ pc = "call"
    /\ op = "UintXXFromBytes"
    /\ LET r == UintXXFromBytes(bytes, xx) IN
       /\ val' = r.val
       /\ err' = r.err
    /\ pc' = "done"
    /\ UNCHANGED <<args, out, outIsNil, big, str, heap>>

BigIntToBytesAndExpandWidthCall ==
    /\ pc = "call"
    /\ op = "BigIntToBytesAndExpandWidth"
    /\ LET r == BigIntToBytesAndExpandWidth(bigInt, width) IN
       /\ out' = r.out
       /\ outIsNil' = r.isNil
       /\ err' = r.err
    /\ pc' = "done"
    /\ UNCHANGED <<args, val, big, str, heap>>

BigIntFromBytesCall ==
    /\ pc = "call"
    /\ op = "BigIntFromBytes"
    /\ big' = BigIntFromBytes(bytes)
    /\ pc' = "done"
    /\ UNCHANGED <<args, out, outIsNil, err, val, str, heap>>

BigIntXXXFromBytesCall ==
    /\ pc = "call"
    /\ op = "BigIntXXXFromBytes"
    /\ LET r == BigIntXXXFromBytes(bytes, xxx) IN
       /\ big' = r.big
       /\ err' = r.err
    /\ pc' = "done"
    /\ UNCHANGED <<args, out, outIsNil, val, str, heap>>

LeftPadBytesCall ==
    /\ pc = "call"
    /\ op = "LeftPadBytes"
    /\ out' = LeftPadBytes(input, size, padByte)
    /\ outIsNil' = FALSE
    /\ outShares' = LeftPadBytesShares(input, size)
    /\ pc' = "done"
    /\ UNCHANGED <<args, err, val, big, str, inputBuf>>

LeftPadBytes00Call ==
    /\ pc = "call"
    /\ op = "LeftPadBytes00"
    /\ out' = LeftPadBytes00(input, size)
    /\ outIsNil' = FALSE
    /\ outShares' = LeftPadBytesShares(input, size)
    /\ pc' = "done"
    /\ UNCHANGED <<args, err, val, big, str, inputBuf>>

LeftPadBytesFFCall ==
    /\ pc = "call"
    /\ op = "LeftPadBytesFF"
    /\ out' = LeftPadBytesFF(input, size)
    /\ outIsNil' = FALSE
    /\ outShares' = LeftPadBytesShares(input, size)
    /\ pc' = "done"
    /\ UNCHANGED <<args, err, val, big, str, inputBuf>>

Int32ToBytesAndExpandWidthCall ==
    /\ pc = "call"
    /\ op = "Int32ToBytesAndExpandWidth"
    /\ LET r == Int32ToBytesAndExpandWidth(intValue, width) IN
       /\ out' = r.out
       /\ outIsNil' = r.isNil
       /\ err' = r.err
    /\ pc' = "done"
    /\ UNCHANGED <<args, val, big, str, heap>>

StringTo256BytesCall ==
    /\ pc = "call"
    /\ op = "StringTo256Bytes"
    /\ LET r == StringTo256Bytes(stringValue) IN
       /\ out' = r.out
       /\ outIsNil' = r.isNil
       /\ err' = r.err
    /\ pc' = "done"
    /\ UNCHANGED <<args, val, big, str, heap>>

StringFrom256BytesCall ==
    /\ pc = "call"
    /\ op = "StringFrom256Bytes"
    /\ str' = StringFrom256Bytes(byteVal)
    /\ pc' = "done"
    /\ UNCHANGED <<args, out, outIsNil, err, val, big, heap>>

\* The caller stores a byte into the first element of the slice a call has
\* returned.  The store lands in the array behind that slice, which is the
\* array behind the argument when the two share it.
WriteReturned ==
    /\ pc = "done"
    /\ op \in SliceOps
    /\ Len(out) > 0
    /\ LET b == (out[1] + 1) % 256 IN
       /\ out' = [out EXCEPT ![1] = b]
       /\ inputBuf' = IF outShares THEN [inputBuf EXCEPT ![1] = b] ELSE inputBuf
    /\ pc' = "written"
    /\ UNCHANGED <<args, outIsNil, err, val, big, str, outShares>>

Next ==
    \/ IntXXToBytesAndExpandWidthCall
    \/ UintXXToBytesAndExpandWidthCall
    \/ IntXXFromBytesCall
    \/ UintXXFromBytesCall
    \/ BigIntToBytesAndExpandWidthCall
    \/ BigIntFromBytesCall
    \/ BigIntXXXFromBytesCall
    \/ LeftPadBytesCall
    \/ LeftPadBytes00Call
    \/ LeftPadBytesFFCall
    \/ Int32ToBytesAndExpandWidthCall
    \/ StringTo256BytesCall
    \/ StringFrom256BytesCall
    \/ WriteReturned

Spec == Init /\ [][Next]_vars

\* ------------------------------------------------------------- properties
\* The call to function o has returned.
Done(o) == pc = "done" /\ op = o

\* v, read as int64, lies in -2^(n-1) .. 2^(n-1)-1: bits n-1 .. 63 all agree.
InSignedRange(v, n) == \A i \in (n - 1)..(WordBits - 1) : BitAt(v, i) = BitAt(v, WordBits - 1)

\* v, read as uint64, lies in 0 .. 2^n-1: bits n .. 63 are all 0.
InUnsignedRange(v, n) == \A i \in n..(WordBits - 1) : BitAt(v, i) = 0

\* v, read as int64, is negative.
Negative(v) == BitAt(v, WordBits - 1) = 1

\* Byte k (0 the least significant) of the low n bits of v.
LowBitsByte(v, n, k) ==
    IF 8 * k + 8 <= n THEN v[k + 1]
    ELSE IF 8 * k >= n THEN 0
    ELSE v[k + 1] % Pow2(n - 8 * k)

\* A call of the signed / unsigned encoder with a valid bit-width and a
\* value of that bit-width's range.
ValidSignedEncode ==
    /\ Done("IntXXToBytesAndExpandWidth")
    /\ xx \in 1..WordBits
    /\ InSignedRange(value, xx)

ValidUnsignedEncode ==
    /\ Done("UintXXToBytesAndExpandWidth")
    /\ xx \in 1..WordBits
    /\ InUnsignedRange(value, xx)

\* C1: a value of the signed xx-bit range, encoded by
\* IntXXToBytesAndExpandWidth into any width >= ceil(xx/8), is encoded
\* without error and IntXXFromBytes gives exactly that value back.
C1_SignedRoundTrip ==
    (ValidSignedEncode /\ width >= NeededBytes(xx))
        => /\ err = ErrNil
           /\ IntXXFromBytes(out, xx) = DecRet(value, ErrNil)

\* A negative 63-bit value, where 1 << xx wraps in the container, encoded
\* with padding and decoded back.
C1_Witness ==
    /\ ValidSignedEncode
    /\ xx = 63
    /\ Negative(value)
    /\ value # MinusOne64
    /\ width > NeededBytes(xx)
    /\ err = ErrNil
    /\ IntXXFromBytes(out, xx).val = value

\* C2: the fixed-width encoders, given a valid bit-width, a value in range
\* and a width below ceil(xx/8), return a WidthTooSmall error; they write no
\* index outside the output buffer and do not panic.
C2_WidthRejection ==
    ((ValidSignedEncode \/ ValidUnsignedEncode) /\ width < NeededBytes(xx))
        => err = WidthTooSmall

\* v lies in -2^(8w-1) .. 2^(8w-1)-1 (w >= 1).
InBigSignedRange(v, w) ==
    IF v.neg THEN NatCmp(v.abs, PowLimbs(8 * w - 1)) <= 0
    ELSE NatCmp(v.abs, PowLimbs(8 * w - 1)) < 0

\* C3: a big integer of the signed w-byte range, w >= 1, is encoded by
\* BigIntToBytesAndExpandWidth without error and BigIntFromBytes gives
\* exactly that integer back.
C3_BigRoundTrip ==
    (/\ Done("BigIntToBytesAndExpandWidth")
     /\ ~bigInt.isNil
     /\ width >= 1
     /\ InBigSignedRange(bigInt, width))
        => /\ err = ErrNil
           /\ BigIntFromBytes(out) = bigInt

\* The most negative value of a width, -2^(8w-1), encoded and decoded back.
C3_Witness ==
    /\ Done("BigIntToBytesAndExpandWidth")
    /\ width >= 2
    /\ bigInt = BigInt(TRUE, PowLimbs(8 * width - 1))
    /\ err = ErrNil
    /\ BigIntFromBytes(out) = bigInt

\* C4: whenever BigIntToBytesAndExpandWidth returns without error, the
\* buffer it returns has exactly width bytes.
C4_ExactWidth ==
    (Done("BigIntToBytesAndExpandWidth") /\ err = ErrNil) => Len(out) = width

\* C5: the signed encoder's result has length width; its last
\* n = ceil(xx/8) bytes are the low xx bits of the value, most significant
\* byte first, the least significant byte at index width-1; the width-n
\* bytes before them are all 0xFF for a negative value and all 0x00
\* otherwise.
C5_SignedLayout ==
    (ValidSignedEncode /\ width >= NeededBytes(xx))
        => /\ err = ErrNil
           /\ Len(out) = width
           /\ \A k \in 0..(NeededBytes(xx) - 1) :
                 out[width - k] = LowBitsByte(value, xx, k)
           /\ \A i \in 1..(width - NeededBytes(xx)) :
                 out[i] = IF Negative(value) THEN 255 ELSE 0

\* -193630 as int24 in 32 bytes: 29 bytes of ff, then fd 0b a2.
C5_Witness ==
    /\ ValidSignedEncode
    /\ value = IntToWord(-193630)
    /\ xx = 24
    /\ width = EVMWord
    /\ out = Repeat(255, 29) \o <<253, 11, 162>>

\* Every byte of the buffer is 0xFF.
AllFF(b) == \A i \in 1..Len(b) : b[i] = 255

\* The claim as first stated for C6: BigIntXXXFromBytes with xxx = 40 on a
\* buffer of at least 5 bytes, all 0xFF, returns the value -1.
C6_Decode40 ==
    (/\ Done("BigIntXXXFromBytes")
     /\ xxx = 40
     /\ Len(bytes) >= 5
     /\ AllFF(bytes))
        => /\ err = ErrNil
           /\ big = NewInt(-1)

\* C6: BigIntXXXFromBytes with xxx = 40 on a buffer of at least 5 bytes, all
\* 0xFF, returns an UnsupportedBitWidth error and no value; it returns -1
\* for an all-0xFF buffer when xxx is a multiple of 8 above 64 and the
\* buffer has at least xxx/8 bytes.
C6_Decode40Rejected ==
    /\ (/\ Done("BigIntXXXFromBytes")
        /\ xxx = 40
        /\ Len(bytes) >= 5
        /\ AllFF(bytes))
           => /\ err = UnsupportedBitWidth
              /\ big = NilBig
    /\ (/\ Done("BigIntXXXFromBytes")
        /\ xxx > WordBits
        /\ xxx % 8 = 0
        /\ Len(bytes) >= xxx \div 8
        /\ AllFF(bytes))
           => /\ err = ErrNil
              /\ big = NewInt(-1)

\* The 40-bit call on five bytes of 0xFF, rejected.
C6_Witness ==
    /\ Done("BigIntXXXFromBytes")
    /\ xxx = 40
    /\ Len(bytes) = 5
    /\ AllFF(bytes)
    /\ err = UnsupportedBitWidth

\* C7: BigIntXXXFromBytes returns an UnsupportedBitWidth error and no value
\* for every xxx <= 64, whatever the buffer, a buffer too short for xxx bits
\* included (the bit-width is checked before the length).
C7_BitWidthRejection ==
    (Done("BigIntXXXFromBytes") /\ xxx <= WordBits)
        => /\ err = UnsupportedBitWidth
           /\ big = NilBig

\* xxx = 64 with a buffer shorter than 8 bytes: the bit-width error wins.
C7_Witness ==
    /\ Done("BigIntXXXFromBytes")
    /\ xxx = WordBits
    /\ Len(bytes) < 8
    /\ err = UnsupportedBitWidth
    /\ big = NilBig

\* C8: with a valid bit-width and width >= ceil(xx/8) the signed encoder
\* fails with RangeError exactly when the value is outside
\* -2^(xx-1) .. 2^(xx-1)-1, and the unsigned encoder exactly when the value
\* is above 2^xx-1.
C8_RangeRejection ==
    /\ (/\ Done("IntXXToBytesAndExpandWidth")
        /\ xx \in 1..WordBits
        /\ width >= NeededBytes(xx))
           => (err = RangeError <=> ~InSignedRange(value, xx))
    /\ (/\ Done("UintXXToBytesAndExpandWidth")
        /\ xx \in 1..WordBits
        /\ width >= NeededBytes(xx))
           => (err = RangeError <=> ~InUnsignedRange(value, xx))

\* 8388608, one past the int24 maximum, rejected at 32 bytes.
C8_Witness ==
    /\ Done("IntXXToBytesAndExpandWidth")
    /\ value = IntToWord(8388608)
    /\ xx = 24
    /\ width = EVMWord
    /\ err = RangeError

\* v has a bit length above 8w (v >= 0), or 2^(8w) + v < 0 (v < 0).
BigOverflows(v, w) ==
    IF v.neg THEN NatCmp(v.abs, PowLimbs(8 * w)) > 0
    ELSE NatCmp(v.abs, PowLimbs(8 * w)) >= 0

\* C9: BigIntToBytesAndExpandWidth returns an Overflow error and a nil
\* buffer for every v >= 0 whose bit length exceeds 8*width and every v < 0
\* with 2^(8*width) + v < 0, and no error for every other v.
C9_OverflowDetection ==
    Done("BigIntToBytesAndExpandWidth")
        => IF ~bigInt.isNil /\ BigOverflows(bigInt, width)
           THEN err = Overflow /\ outIsNil /\ out = <<>>
           ELSE err = ErrNil

\* 256 does not fit in one byte.
C9_Witness ==
    /\ Done("BigIntToBytesAndExpandWidth")
    /\ bigInt = BigInt(FALSE, <<0, 1>>)
    /\ width = 1
    /\ err = Overflow
    /\ outIsNil

\* C10: the decoders, given a valid bit-width and a buffer shorter than
\* ceil(bits/8), return a LengthError with a zero (nil) value and read no
\* index outside the buffer; given a buffer long enough they return no
\* LengthError.
C10_UndersizedInput ==
    /\ (/\ (Done("IntXXFromBytes") \/ Done("UintXXFromBytes"))
        /\ xx \in 1..WordBits)
           => IF Len(bytes) < NeededBytes(xx)
              THEN err = LengthError /\ val = Zero64
              ELSE err = ErrNil
    /\ (/\ Done("BigIntXXXFromBytes")
        /\ xxx > WordBits)
           => IF Len(bytes) < NeededBytes(xxx)
              THEN err = LengthError /\ big = NilBig
              ELSE err = ErrNil

\* A signed decode of a buffer one byte short.
C10_Witness ==
    /\ Done("IntXXFromBytes")
    /\ xx \in 1..WordBits
    /\ Len(bytes) = NeededBytes(xx) - 1
    /\ Len(bytes) >= 1
    /\ err = LengthError
    /\ val = Zero64

\* C11: a value of the unsigned xx-bit range, encoded by
\* UintXXToBytesAndExpandWidth into any width >= ceil(xx/8), gives without
\* error a buffer of length width whose leading width - ceil(xx/8) bytes
\* are 0x00, and UintXXFromBytes gives exactly that value back.
C11_UnsignedRoundTrip ==
    (ValidUnsignedEncode /\ width >= NeededBytes(xx))
        => /\ err = ErrNil
           /\ Len(out) = width
           /\ \A i \in 1..(width - NeededBytes(xx)) : out[i] = 0
           /\ UintXXFromBytes(out, xx) = DecRet(value, ErrNil)

\* 2^64 - 1 as uint64, encoded with padding and decoded back.
C11_Witness ==
    /\ ValidUnsignedEncode
    /\ xx = WordBits
    /\ value = MinusOne64
    /\ width > NeededBytes(xx)
    /\ err = ErrNil
    /\ UintXXFromBytes(out, xx).val = value

\* Prefixes put in front of a decoder's input.
Prefixes == { <<0>>, <<255>>, <<171, 205>> }

\* The last n elements of s.
Trailing(s, n) == SubSeq(s, Len(s) - n + 1, Len(s))

\* C12: with a valid bit-width and a buffer of at least ceil(xx/8) bytes,
\* the fixed-width decoders return what they return for the last ceil(xx/8)
\* bytes alone, and what they return with any prefix in front of the buffer.
C12_TrailingBytesOnly ==
    (/\ (Done("IntXXFromBytes") \/ Done("UintXXFromBytes"))
     /\ xx \in 1..WordBits
     /\ Len(bytes) >= NeededBytes(xx))
        => LET decode(b) == IF op = "IntXXFromBytes" THEN IntXXFromBytes(b, xx)
                            ELSE UintXXFromBytes(b, xx)
           IN  /\ decode(Trailing(bytes, NeededBytes(xx))) = DecRet(val, err)
               /\ \A p \in Prefixes : decode(p \o bytes) = DecRet(val, err)

\* An int24 read from five bytes 7f ff ff ff ff: the two leading bytes,
\* whose top bit is clear, are ignored and the value is -1.
C12_Witness ==
    /\ Done("IntXXFromBytes")
    /\ xx = 24
    /\ bytes = <<127, 255, 255, 255, 255>>
    /\ err = ErrNil
    /\ val = MinusOne64

\* C13: LeftPadBytes returns its input unchanged, byte for byte, when
\* size <= len(input) (size <= 0 included); otherwise it returns exactly
\* size bytes, the first size - len(input) of them the fill byte and the
\* last len(input) of them the input in order.  LeftPadBytes00 and
\* LeftPadBytesFF do the same with fill 0x00 and 0xFF.  No error arises.
C13_LeftPad ==
    (pc = "done" /\ op \in PadOps)
        => LET fill == CASE op = "LeftPadBytes" -> padByte
                         [] op = "LeftPadBytes00" -> 0
                         [] OTHER -> 255
               n == Len(input)
           IN  /\ err = ErrNil
               /\ IF size <= n THEN out = input
                  ELSE /\ Len(out) = size
                       /\ \A i \in 1..(size - n) : out[i] = fill
                       /\ \A i \in 1..n : out[size - n + i] = input[i]

\* 01 fe fe padded with 0xFF to five bytes.
C13_Witness ==
    /\ Done("LeftPadBytesFF")
    /\ input = <<1, 254, 254>>
    /\ size = 5
    /\ out = <<255, 255, 1, 254, 254>>

\* C14: the buffer the caller passed holds the same bytes after the call as
\* before it, and still does after the caller has written into the buffer
\* the call returned (LeftPadBytes with size <= len(input) included).
C14_InputUntouched ==
    (pc \in {"done", "written"}) => inputBuf = SliceArg

\* The value of an int32 as a big.Int, from its limbs.
BigOfInt32(v) ==
    IF v[4] < 128 THEN BigInt(FALSE, NatNorm(v))
    ELSE BigInt(TRUE, NatSub(<<0, 0, 0, 0, 1>>, NatNorm(v)))

\* C15: Int32ToBytesAndExpandWidth(v, width) with width >= 4 gives, without
\* error, exactly width bytes that BigIntFromBytes reads back as v; with
\* width < 4 it gives an error and an empty buffer.
C15_Int32SignExtension ==
    Done("Int32ToBytesAndExpandWidth")
        => IF width >= 4
           THEN /\ err = ErrNil
                /\ Len(out) = width
                /\ BigIntFromBytes(out) = BigOfInt32(intValue)
           ELSE /\ err # ErrNil
                /\ out = <<>>

\* MinInt32 in 32 bytes reads back as -2^31.
C15_Witness ==
    /\ Done("Int32ToBytesAndExpandWidth")
    /\ intValue = <<0, 0, 0, 128>>
    /\ width = EVMWord
    /\ err = ErrNil
    /\ Len(out) = EVMWord
    /\ BigIntFromBytes(out) = BigInt(TRUE, <<0, 0, 0, 128>>)

\* C16: StringTo256Bytes(s) with len(s) <= 255 gives, without error, 256
\* bytes: byte 0 is len(s), the last len(s) bytes are s, the bytes between
\* are 0x00, and StringFrom256Bytes gives s back; with len(s) > 255 it gives
\* an error and an all-zero array.
C16_StringRoundTrip ==
    Done("StringTo256Bytes")
        => LET l == Len(stringValue) IN
           IF l <= 255
           THEN /\ err = ErrNil
                /\ Len(out) = 256
                /\ out[1] = l
                /\ \A i \in 1..l : out[256 - l + i] = stringValue[i]
                /\ \A i \in 2..(256 - l) : out[i] = 0
                /\ StringFrom256Bytes(out) = stringValue
           ELSE /\ err # ErrNil
                /\ out = [i \in 1..256 |-> 0]

\* A string of 255 bytes, every other one 0x00, packed and unpacked.
C16_Witness ==
    /\ Done("StringTo256Bytes")
    /\ Len(stringValue) = 255
    /\ stringValue[1] = 0
    /\ stringValue[2] = 122
    /\ err = ErrNil
    /\ out[1] = 255
    /\ StringFrom256Bytes(out) = stringValue

\* v lies in -2^(n-1) .. 2^(n-1)-1.
InBigBitRange(v, n) ==
    IF v.neg THEN NatCmp(v.abs, PowLimbs(n - 1)) <= 0
    ELSE NatCmp(v.abs, PowLimbs(n - 1)) < 0

\* C17: for every bit-width xxx > 64, multiple of 8 or not, every v of the
\* signed xxx-bit range and every width >= ceil(xxx/8),
\* BigIntToBytesAndExpandWidth(v, width) succeeds and BigIntXXXFromBytes
\* reads exactly v back from its result.
C17_StrictRoundTrip ==
    (Done("BigIntToBytesAndExpandWidth") /\ ~bigInt.isNil)
        => \A x \in XXXs :
              (x > WordBits /\ width >= NeededBytes(x) /\ InBigBitRange(bigInt, x))
                  => /\ err = ErrNil
                     /\ BigIntXXXFromBytes(out, x) = BigRet(bigInt, ErrNil)

\* C18: with xx in 1..64 and a buffer of at least ceil(xx/8) bytes of any
\* content, IntXXFromBytes returns a value of -2^(xx-1) .. 2^(xx-1)-1 and
\* UintXXFromBytes a value of 0 .. 2^xx-1.
C18_DecodedInRange ==
    /\ (Done("IntXXFromBytes") /\ xx \in 1..WordBits /\ Len(bytes) >= NeededBytes(xx))
           => (err = ErrNil /\ InSignedRange(val, xx))
    /\ (Done("UintXXFromBytes") /\ xx \in 1..WordBits /\ Len(bytes) >= NeededBytes(xx))
           => (err = ErrNil /\ InUnsignedRange(val, xx))

\* The value of an int64 as a big.Int.
BigOfInt64(v) ==
    IF Negative(v) THEN BigInt(TRUE, NatNorm(Sub64(Zero64, v)))
    ELSE BigInt(FALSE, NatNorm(v))

\* C19: for every xx in 1..64, every v of the signed xx-bit range and every
\* width >= ceil(xx/8), the buffer IntXXToBytesAndExpandWidth returns reads
\* as v when BigIntFromBytes takes it as one width*8-bit two's-complement
\* number, and is the buffer BigIntToBytesAndExpandWidth(v, width) returns.
C19_FullWidthTwosComplement ==
    (ValidSignedEncode /\ width >= NeededBytes(xx))
        => /\ err = ErrNil
           /\ BigIntFromBytes(out) = BigOfInt64(value)
           /\ out = BigIntToBytesAndExpandWidth(BigOfInt64(value), width).out

\* C20: whenever BigIntToBytesAndExpandWidth(v, width) returns without
\* error, BigIntFromBytes reads v back from the buffer returned (a nil v
\* stands for 0).
C20_EncodeDecodable ==
    (Done("BigIntToBytesAndExpandWidth") /\ err = ErrNil)
        => BigIntFromBytes(out) = (IF bigInt.isNil THEN BigInt(FALSE, <<>>) ELSE bigInt)

====
